---- MODULE Spec2Model ----
(***************************************************************************)
(* The offers store (offers/db_mysql.go, offers/offer.go), the catalog     *)
(* reconciler and the sync driver (offers/config.go) and the request       *)
(* handlers (offers/app/app.go) of a-plx/shopping-example.                 *)
(*                                                                         *)
(* The offers table is a sequence of rows in primary-key order.  A sync    *)
(* pass is the execution of updateHandler; each upstream request and each  *)
(* SQL statement it issues is one step.                                    *)
(***************************************************************************)
EXTENDS Integers, Sequences, FiniteSets, TLC

(***************************************************************************)
(* Bounds of the model.                                                    *)
(***************************************************************************)
MaxRequests == 2      \* request slots of the HTTP server
MaxPasses   == 2      \* update requests served in one behaviour
MaxPages    == 2      \* pages of one products list
MaxPageLen  == 2      \* products on one page
MaxAcctPages == 1     \* pages of the sub-account list of an aggregator
MaxAccts    == 2      \* sub-accounts on one page
MaxRows     == 4      \* rows of the offers table
MaxAuth     == 2      \* account identifiers in an authinfo response
MaxAccountId == 2     \* largest Merchant Center account id
MaxFill     == 50     \* rows in front of the rows searched for (search model)
MaxTail     == 2      \* rows after them
MaxFaults   == 1      \* injected failures (upstream requests, store I/O)

Requests   == 1..MaxRequests
AccountIds == 1..MaxAccountId

(***************************************************************************)
(* Strings that are searched are sequences of characters.                  *)
(***************************************************************************)
Chars == {"A", "a", "B", "b"}

\* unicode.ToLower on the alphabet
ToLowerChar(c) == CASE c = "A" -> "a" [] c = "B" -> "b" [] OTHER -> c

\* strings.ToLower
ToLower(s) == [i \in 1..Len(s) |-> ToLowerChar(s[i])]

\* strings.Contains(s, substr)
Contains(s, sub) ==
    \E k \in 0..(Len(s) - Len(sub)) : SubSeq(s, k + 1, k + Len(sub)) = sub

(***************************************************************************)
(* offers/offer.go: the Offer value.                                       *)
(***************************************************************************)
Offer(id, title, desc) ==
    [ID |-> id, Title |-> title, Price |-> "10", Currency |-> "USD",
     ImageURL |-> "img", Description |-> desc, MerchantURL |-> "url"]

\* the product records the upstream catalog serves
Products ==
    { Offer("X1", "t1", <<"A", "b">>),
      Offer("X1", "t2", <<"a">>),
      Offer("X2", "t1", <<"B">>) }

\* updateProducts, lines 137-145: the Offer built from a product record
OfferOfProduct(product) ==
    [ID |-> product.ID, Title |-> product.Title, Price |-> product.Price,
     Currency |-> product.Currency, ImageURL |-> product.ImageURL,
     Description |-> product.Description, MerchantURL |-> product.MerchantURL]

(***************************************************************************)
(* The prepared statements: the number of ? placeholders of each.          *)
(***************************************************************************)
ListLimit == 50
insertStatement == [kind |-> "insert", numInput |-> 7]
deleteStatement == [kind |-> "delete", numInput |-> 0]
updateStatement == [kind |-> "update", numInput |-> 8]

\* the column declared with default 0
UpdatedDefault_Zero == FALSE

\* column default of createTableStatements: updated BOOLEAN NOT NULL default 1
UpdatedDefault == TRUE

\* the row an INSERT of insertStatement adds: id from AUTO_INCREMENT,
\* updated from the column default
NewRow(rowId, args) ==
    [id |-> rowId, offerId |-> args[1], title |-> args[2], price |-> args[3],
     currency |-> args[4], imageUrl |-> args[5], description |-> args[6],
     merchantUrl |-> args[7], updated |-> UpdatedDefault]

\* the row an UPDATE of updateStatement writes: WHERE id = args[8]
UpdatedRow(row, args) ==
    [id |-> row.id, offerId |-> args[1], title |-> args[2], price |-> args[3],
     currency |-> args[4], imageUrl |-> args[5], description |-> args[6],
     merchantUrl |-> args[7], updated |-> TRUE]

\* the arguments the store methods pass for an offer
OfferArgs(o) ==
    <<o.ID, o.Title, o.Price, o.Currency, o.ImageURL, o.Description,
      o.MerchantURL>>

\* scanOffer: the Offer read from a row (the row id and the flag are dropped)
scanOffer(row) ==
    [ID |-> row.offerId, Title |-> row.title, Price |-> row.price,
     Currency |-> row.currency, ImageURL |-> row.imageUrl,
     Description |-> row.description, MerchantURL |-> row.merchantUrl]


(***************************************************************************)
(* A database value: the table and its AUTO_INCREMENT counter.             *)
(***************************************************************************)
DBOf(rows, autoInc) == [rows |-> rows, autoInc |-> autoInc]

\* stmt.Exec: the statement is refused when the number of arguments is not
\* the number of placeholders, or on an I/O failure; otherwise it runs.
\* The result is the database after it and the number of rows affected.
Exec(stmt, args, db, ioFail) ==
    IF ioFail \/ Len(args) # stmt.numInput
    THEN [err |-> TRUE, db |-> db, rowsAffected |-> 0]
    ELSE CASE stmt.kind = "insert" ->
                [err |-> FALSE,
                 db |-> DBOf(Append(db.rows, NewRow(db.autoInc, args)),
                             db.autoInc + 1),
                 rowsAffected |-> 1]
           [] stmt.kind = "update" ->
                LET hit(r)    == r.id = args[8]
                    changed(r) == hit(r) /\ UpdatedRow(r, args) # r
                    n == Len(SelectSeq(db.rows, changed))
                IN  [err |-> FALSE,
                     db |-> DBOf([i \in 1..Len(db.rows) |->
                                    IF hit(db.rows[i])
                                    THEN UpdatedRow(db.rows[i], args)
                                    ELSE db.rows[i]],
                                 db.autoInc),
                     rowsAffected |-> n]
           [] stmt.kind = "delete" ->
                LET keep(r) == r.updated # FALSE
                IN  [err |-> FALSE,
                     db |-> DBOf(SelectSeq(db.rows, keep), db.autoInc),
                     rowsAffected |->
                        Len(db.rows) - Len(SelectSeq(db.rows, keep))]

\* execAffectingOneRow: an error unless exactly one row was affected
execAffectingOneRow(stmt, args, db, ioFail) ==
    LET r == Exec(stmt, args, db, ioFail)
    IN  [err |-> r.err \/ r.rowsAffected # 1, db |-> r.db]

\* mysqlDB.AddOffer
AddOffer(o, db, ioFail) ==
    execAffectingOneRow(insertStatement, OfferArgs(o), db, ioFail)

\* mysqlDB.UpdateOffer
UpdateOffer(o, db, ioFail) ==
    IF o.ID = ""
    THEN [err |-> TRUE, db |-> db]
    ELSE execAffectingOneRow(updateStatement, OfferArgs(o), db, ioFail)

\* DeleteOffers through execAffectingOneRow, as AddOffer and UpdateOffer
DeleteOffers_AffectingOneRow(db, ioFail) ==
    execAffectingOneRow(deleteStatement, <<>>, db, ioFail)

\* mysqlDB.DeleteOffers
DeleteOffers(db, ioFail) ==
    LET r == Exec(deleteStatement, <<>>, db, ioFail)
    IN  [err |-> r.err, db |-> r.db]

\* GetOffer with the sql.ErrNoRows test lost: a miss yields no error
GetOffer_MissIsNil(id, db, ioFail) ==
    LET match(r) == r.offerId = id
        rows == SelectSeq(db.rows, match)
    IN  IF ioFail THEN [err |-> "io", offers |-> <<>>]
        ELSE IF rows = <<>> THEN [err |-> "nil", offers |-> <<>>]
        ELSE [err |-> "nil", offers |-> <<scanOffer(rows[1])>>]

\* mysqlDB.GetOffer: QueryRow scans the first row that matches
GetOffer(id, db, ioFail) ==
    LET match(r) == r.offerId = id
        rows == SelectSeq(db.rows, match)
    IN  IF ioFail THEN [err |-> "io", offers |-> <<>>]
        ELSE IF rows = <<>> THEN [err |-> "notfound", offers |-> <<>>]
        ELSE [err |-> "nil", offers |-> <<scanOffer(rows[1])>>]

\* the rows listStatement returns: the first ListLimit rows of the scan of
\* the table (the statement has no ORDER BY; the scan is in primary-key order)
ListRows(db) ==
    SubSeq(db.rows, 1, IF Len(db.rows) < ListLimit THEN Len(db.rows)
                       ELSE ListLimit)

\* mysqlDB.ListOffers
ListOffers(db, ioFail) ==
    IF ioFail THEN [err |-> "io", offers |-> <<>>]
    ELSE [err |-> "nil",
          offers |-> [i \in 1..Len(ListRows(db)) |-> scanOffer(ListRows(db)[i])]]

\* mysqlDB.SearchOffers
SearchOffers(s, db, ioFail) ==
    LET listed == [i \in 1..Len(ListRows(db)) |-> scanOffer(ListRows(db)[i])]
        match(o) == Contains(ToLower(o.Description), ToLower(s))
        offers == SelectSeq(listed, match)
    IN  IF ioFail THEN [err |-> "io", offers |-> <<>>]
        ELSE IF Len(offers) = 0 THEN [err |-> "notfound", offers |-> <<>>]
        ELSE [err |-> "nil", offers |-> offers]

(***************************************************************************)
(* The upstream catalog source (Content API).                              *)
(***************************************************************************)
\* an entry of authinfo.AccountIdentifiers; 0 is an unset field
AccountIdentifiers ==
    [MerchantId : 0..MaxAccountId, AggregatorId : 0..MaxAccountId]

SeqsUpTo(S, n) == UNION {[1..k -> S] : k \in 0..n}

AuthInfos == SeqsUpTo(AccountIdentifiers, MaxAuth)

\* one page of a products list of a catalog
ProductPages(cat) == SeqsUpTo(cat, MaxPageLen)

\* one page of the sub-account list of an aggregator
AccountPages == {[i \in 1..k |-> MaxAccountId + i] : k \in 0..MaxAccts}

(***************************************************************************)
(* retrieve: the account to reconcile and its kind.                        *)
(***************************************************************************)
\* lines 238-246: the default account when no id is configured
DefaultId(id, authinfo) ==
    IF id = 0
    THEN (IF id = 0 THEN authinfo[1].AggregatorId ELSE authinfo[1].MerchantId)
    ELSE id

RECURSIVE CheckAccounts_AggregatorFirst(_, _)
\* CheckAccounts with the two cases of the switch exchanged
CheckAccounts_AggregatorFirst(id, identifiers) ==
    IF identifiers = <<>> THEN FALSE
    ELSE IF id = Head(identifiers).AggregatorId THEN TRUE
    ELSE IF id = Head(identifiers).MerchantId THEN FALSE
    ELSE CheckAccounts_AggregatorFirst(id, Tail(identifiers))

RECURSIVE CheckAccounts(_, _)
\* lines 249-259: the first identifier that names id decides
CheckAccounts(id, identifiers) ==
    IF identifiers = <<>> THEN FALSE
    ELSE IF id = Head(identifiers).MerchantId THEN FALSE
    ELSE IF id = Head(identifiers).AggregatorId THEN TRUE
    ELSE CheckAccounts(id, Tail(identifiers))

(***************************************************************************)
(* State.                                                                  *)
(***************************************************************************)
VARIABLES
    store,      \* the rows of the offers table, in primary-key order
    nextId,     \* the AUTO_INCREMENT counter of the table
    serving,    \* the request slots the server uses
    catalog,    \* the product records the upstream catalog serves
    boot,       \* the construction of the store (newMySQLDB)
    crashed,    \* log.Fatal has ended the process
    passes,     \* update requests started so far
    faults,     \* failures injected so far
    merchantId, \* the MERCHANT_ID of the environment
    pc,         \* pc[p]: the position of request p in updateHandler
    ctl,        \* ctl[p]: the locals of the pass of request p
    hist,       \* hist[p]: what has happened in the pass of request p
    resp        \* the result of the last read of the store

vars == <<store, nextId, serving, catalog, boot, crashed, passes, faults, merchantId,
          pc, ctl, hist, resp>>

DB == DBOf(store, nextId)

StoreIds == {store[i].offerId : i \in DOMAIN store}

NoCtl ==
    [id |-> 0, isMCA |-> FALSE, authinfo |-> <<>>,
     acctQueue |-> <<>>, acctMore |-> FALSE, acctPagesLeft |-> 0,
     prodQueue |-> <<>>, prodMore |-> FALSE, pagesLeft |-> 0,
     cur |-> <<>>, found |-> FALSE]

NoHist ==
    [seen |-> {}, upserted |-> <<>>, sweeps |-> 0, before |-> <<>>,
     startIds |-> {}, served |-> <<>>,
     resolution |-> "none", reconciler |-> FALSE, storeOps |-> 0,
     pageFailed |-> FALSE, getFailed |-> FALSE, updateFailed |-> FALSE,
     addFailed |-> FALSE, deleteFailed |-> FALSE]

NoResp == [op |-> "none", q |-> <<>>, err |-> "nil", offers |-> <<>>]

\* the store has been constructed
Constructed == [pc |-> "constructed"]

Init ==
    /\ store = <<>>
    /\ nextId = 1
    /\ serving = {1}
    /\ catalog = Products
    /\ boot = Constructed
    /\ crashed = FALSE
    /\ passes = 0
    /\ faults = 0
    /\ merchantId \in 0..MaxAccountId
    /\ pc = [p \in Requests |-> "idle"]
    /\ ctl = [p \in Requests |-> NoCtl]
    /\ hist = [p \in Requests |-> NoHist]
    /\ resp = NoResp

Running(p) == p \in serving /\ ~crashed

\* the outcomes of an operation that can fail: FALSE is success, TRUE an
\* injected failure
Failures == {FALSE} \cup {f \in {TRUE} : faults < MaxFaults}

Inject(f) == faults' = IF f THEN faults + 1 ELSE faults

\* the failure is logged and the pass goes on to the reconciler
Fatal_LogOnly(p) ==
    /\ crashed' = crashed
    /\ pc' = [pc EXCEPT ![p] = "prodPage"]

\* log.Fatal: the process exits
Fatal(p) ==
    /\ crashed' = TRUE
    /\ pc' = [pc EXCEPT ![p] = "fatal"]

\* where updateProductsList returns to: the loop of updateAccountTables for
\* an aggregator, the end of updateOffersData otherwise
ReturnPc(c) == IF c.isMCA THEN "acctLoop" ELSE "render"

\* Pages with the NextPageToken ignored: it stops after the first page
AfterPage_FirstPageOnly(c, err) == ReturnPc(c)

\* products.List(...).Pages after updateProducts has returned err for a
\* page: it stops on an error and when the page has no NextPageToken, and
\* otherwise requests the next page
AfterPage(c, err) ==
    IF err THEN ReturnPc(c)
    ELSE IF c.prodMore THEN "prodPage"
    ELSE ReturnPc(c)

(***************************************************************************)
(* updateHandler and RunUpdate up to the call of retrieve.                 *)
(***************************************************************************)
UpdateHandler(p) ==
    /\ Running(p)
    /\ pc[p] \in {"idle", "done"}
    /\ passes < MaxPasses
    /\ passes' = passes + 1
    /\ LET id == merchantId
       IN  /\ ctl' = [ctl EXCEPT ![p] = [NoCtl EXCEPT !.id = id]]
           /\ hist' = [hist EXCEPT ![p] = [NoHist EXCEPT !.startIds = StoreIds]]
           /\ IF id = 0
              THEN Fatal(p)
              ELSE /\ pc' = [pc EXCEPT ![p] = "authinfo"]
                   /\ UNCHANGED crashed
    /\ UNCHANGED <<store, nextId, serving, catalog, boot, faults, merchantId,
                   resp>>

(***************************************************************************)
(* retrieve.                                                               *)
(***************************************************************************)
\* accounts.Authinfo().Do() and lines 230-264
Authinfo(p) ==
    /\ Running(p)
    /\ pc[p] = "authinfo"
    /\ \/ /\ TRUE \in Failures               \* the request fails
          /\ Inject(TRUE)
          /\ Fatal(p)
          /\ hist' = [hist EXCEPT ![p].resolution = "authFailed"]
          /\ UNCHANGED ctl
       \/ \E authinfo \in AuthInfos :
             /\ Inject(FALSE)
             /\ IF Len(authinfo) = 0
                THEN /\ Fatal(p)
                     /\ hist' = [hist EXCEPT ![p].resolution = "authEmpty"]
                     /\ UNCHANGED ctl
                ELSE LET id == DefaultId(ctl[p].id, authinfo)
                     IN  /\ ctl' = [ctl EXCEPT
                                ![p].id = id,
                                ![p].authinfo = authinfo,
                                ![p].isMCA = CheckAccounts(id, authinfo)]
                         /\ pc' = [pc EXCEPT ![p] = "accountsGet"]
                         /\ UNCHANGED <<crashed, hist>>
    /\ UNCHANGED <<store, nextId, serving, catalog, boot, passes, merchantId,
                   resp>>

\* accounts.Get(id, id).Do() and the entry of updateOffersData
AccountsGet(p) ==
    /\ Running(p)
    /\ pc[p] = "accountsGet"
    /\ \/ /\ TRUE \in Failures               \* the request fails
          /\ Inject(TRUE)
          /\ Fatal(p)
          /\ hist' = [hist EXCEPT ![p].resolution = "getFailed"]
          /\ UNCHANGED ctl
       \/ /\ Inject(FALSE)
          /\ IF ctl[p].isMCA
             THEN /\ pc' = [pc EXCEPT ![p] = "acctPage"]
                  /\ ctl' = [ctl EXCEPT ![p].acctPagesLeft = MaxAcctPages,
                                        ![p].authinfo = <<>>]
             ELSE /\ pc' = [pc EXCEPT ![p] = "prodPage"]
                  /\ ctl' = [ctl EXCEPT ![p].pagesLeft = MaxPages,
                                        ![p].authinfo = <<>>]
          /\ hist' = [hist EXCEPT ![p].resolution = "ok",
                                  ![p].reconciler = TRUE]
          /\ UNCHANGED crashed
    /\ UNCHANGED <<store, nextId, serving, catalog, boot, passes, merchantId,
                   resp>>

(***************************************************************************)
(* updateOffersData.                                                       *)
(***************************************************************************)
\* one request of accounts.List(account.Id).Pages(ctx, updateAccountTables)
AccountsListDo(p) ==
    /\ Running(p)
    /\ pc[p] = "acctPage"
    /\ \/ /\ TRUE \in Failures                     \* the request fails
          /\ Inject(TRUE)
          /\ pc' = [pc EXCEPT ![p] = "render"]
          /\ hist' = [hist EXCEPT ![p].pageFailed = TRUE]
          /\ UNCHANGED ctl
       \/ \E res \in AccountPages,
             more \in {FALSE} \cup {m \in {TRUE} : ctl[p].acctPagesLeft > 1} :
             /\ Inject(FALSE)
             /\ ctl' = [ctl EXCEPT ![p].acctQueue = res,
                                   ![p].acctMore = more,
                                   ![p].acctPagesLeft = @ - 1]
             /\ pc' = [pc EXCEPT ![p] = "acctLoop"]
             /\ UNCHANGED hist
    /\ UNCHANGED <<store, nextId, serving, catalog, boot, crashed, passes,
                   merchantId, resp>>

\* updateAccountTables: the loop over res.Resources, and the return to Pages
UpdateAccountTables(p) ==
    /\ Running(p)
    /\ pc[p] = "acctLoop"
    /\ IF ctl[p].acctQueue # <<>>
       THEN /\ ctl' = [ctl EXCEPT ![p].acctQueue = Tail(@),
                                  ![p].pagesLeft = MaxPages]
            /\ pc' = [pc EXCEPT ![p] = "prodPage"]
       ELSE /\ pc' = [pc EXCEPT ![p] =
                        IF ctl[p].acctMore THEN "acctPage" ELSE "render"]
            /\ UNCHANGED ctl
    /\ UNCHANGED <<store, nextId, serving, catalog, boot, crashed, passes,
                   faults, merchantId,
                   hist, resp>>

\* one request of products.List(account.Id).Pages(ctx, updateProducts); the
\* error Pages returns is dropped by updateProductsList
ProductsListDo(p) ==
    /\ Running(p)
    /\ pc[p] = "prodPage"
    /\ \/ /\ TRUE \in Failures                           \* the request fails
          /\ Inject(TRUE)
          /\ pc' = [pc EXCEPT ![p] = ReturnPc(ctl[p])]
          /\ hist' = [hist EXCEPT ![p].pageFailed = TRUE]
          /\ UNCHANGED ctl
       \/ \E res \in ProductPages(catalog),
             more \in {FALSE} \cup {m \in {TRUE} : ctl[p].pagesLeft > 1} :
             /\ Len(store) + Len(res) <= MaxRows
             /\ Inject(FALSE)
             /\ ctl' = [ctl EXCEPT ![p].prodQueue = res,
                                   ![p].prodMore = more,
                                   ![p].pagesLeft = @ - 1]
             /\ hist' = [hist EXCEPT
                            ![p].seen = @ \cup {res[i].ID : i \in DOMAIN res},
                            ![p].served = @ \o res]
             /\ pc' = [pc EXCEPT ![p] = "record"]
    /\ UNCHANGED <<store, nextId, serving, catalog, boot, crashed, passes,
                   merchantId, resp>>

(***************************************************************************)
(* updateProducts.                                                         *)
(***************************************************************************)
\* lines 135-146: the next product of the page and DB.GetOffer(id)
GetOfferStep(p) ==
    /\ Running(p)
    /\ pc[p] = "record"
    /\ ctl[p].prodQueue # <<>>
    /\ \E ioFail \in Failures :
          LET o == OfferOfProduct(Head(ctl[p].prodQueue))
              r == GetOffer(o.ID, DB, ioFail)
          IN  /\ ctl' = [ctl EXCEPT ![p].prodQueue = Tail(@),
                                    ![p].cur = <<o>>,
                                    ![p].found = (r.err = "nil")]
              /\ pc' = [pc EXCEPT ![p] =
                           IF r.err = "nil" THEN "update" ELSE "add"]
              /\ Inject(ioFail)
    /\ hist' = [hist EXCEPT ![p].before = store,
                            ![p].storeOps = @ + 1,
                            ![p].getFailed = @ \/ (faults' # faults)]
    /\ UNCHANGED <<store, nextId, serving, catalog, boot, crashed, passes,
                   merchantId, resp>>

\* line 147: DB.UpdateOffer(o); its error is dropped
UpdateOfferStep(p) ==
    /\ Running(p)
    /\ pc[p] = "update"
    /\ \E ioFail \in Failures :
          LET r == UpdateOffer(ctl[p].cur[1], DB, ioFail)
          IN  /\ store' = r.db.rows
              /\ nextId' = r.db.autoInc
              /\ Inject(ioFail)
              /\ hist' = [hist EXCEPT ![p].updateFailed = @ \/ r.err,
                                      ![p].storeOps = @ + 1]
    /\ pc' = [pc EXCEPT ![p] = "add"]
    /\ UNCHANGED <<serving, catalog, boot, crashed, passes, merchantId, ctl,
                   resp>>

\* lines 149-151: DB.AddOffer(o); an error ends updateProducts and Pages
AddOfferStep(p) ==
    /\ Running(p)
    /\ pc[p] = "add"
    /\ \E ioFail \in Failures :
          LET r == AddOffer(ctl[p].cur[1], DB, ioFail)
          IN  /\ store' = r.db.rows
              /\ nextId' = r.db.autoInc
              /\ Inject(ioFail)
              /\ IF r.err
                 THEN /\ hist' = [hist EXCEPT ![p].addFailed = TRUE,
                                              ![p].storeOps = @ + 1]
                      /\ pc' = [pc EXCEPT ![p] = ReturnPc(ctl[p])]
                      /\ ctl' = [ctl EXCEPT ![p].cur = <<>>,
                                            ![p].found = FALSE]
                 ELSE /\ hist' = [hist EXCEPT
                            ![p].upserted = Append(@, ctl[p].cur[1]),
                            ![p].storeOps = @ + 1]
                      /\ pc' = [pc EXCEPT ![p] = "record"]
                      /\ UNCHANGED ctl
    /\ UNCHANGED <<serving, catalog, boot, crashed, passes, merchantId, resp>>

\* line 153: DB.DeleteOffers() at the end of the page, and the return to
\* Pages, which asks for the next page when there is a NextPageToken
DeleteOffersStep(p) ==
    /\ Running(p)
    /\ pc[p] = "record"
    /\ ctl[p].prodQueue = <<>>
    /\ \E ioFail \in Failures :
          LET r == DeleteOffers(DB, ioFail)
          IN  /\ store' = r.db.rows
              /\ nextId' = r.db.autoInc
              /\ Inject(ioFail)
              /\ hist' = [hist EXCEPT ![p].sweeps = @ + 1,
                                      ![p].storeOps = @ + 1,
                                      ![p].deleteFailed = @ \/ r.err]
              /\ pc' = [pc EXCEPT ![p] = AfterPage(ctl[p], r.err)]
    /\ ctl' = [ctl EXCEPT ![p].cur = <<>>, ![p].found = FALSE]
    /\ UNCHANGED <<serving, catalog, boot, crashed, passes, merchantId, resp>>

\* updateHandler, line 124: RunUpdate has returned, the success page is
\* rendered
RenderSuccess(p) ==
    /\ Running(p)
    /\ pc[p] = "render"
    /\ pc' = [pc EXCEPT ![p] = "done"]
    /\ UNCHANGED <<store, nextId, serving, catalog, boot, crashed, passes,
                   faults, merchantId,
                   ctl, hist, resp>>

Next ==
    \E p \in Requests :
       \/ UpdateHandler(p)
       \/ Authinfo(p)
       \/ AccountsGet(p)
       \/ AccountsListDo(p)
       \/ UpdateAccountTables(p)
       \/ ProductsListDo(p)
       \/ GetOfferStep(p)
       \/ UpdateOfferStep(p)
       \/ AddOfferStep(p)
       \/ DeleteOffersStep(p)
       \/ RenderSuccess(p)

Spec == Init /\ [][Next]_vars

(***************************************************************************)
(* The sync pass over an upstream catalog that serves a product record     *)
(* whose id is empty.                                                      *)
(***************************************************************************)
EmptyIdProduct == Offer("", "t1", <<"a">>)

InitEmptyId ==
    /\ store = <<>>
    /\ nextId = 1
    /\ serving = {1}
    /\ catalog = {EmptyIdProduct, Offer("X1", "t1", <<"A", "b">>)}
    /\ boot = Constructed
    /\ crashed = FALSE
    /\ passes = 0
    /\ faults = 0
    /\ merchantId \in AccountIds
    /\ pc = [p \in Requests |-> "idle"]
    /\ ctl = [p \in Requests |-> NoCtl]
    /\ hist = [p \in Requests |-> NoHist]
    /\ resp = NoResp

SpecEmptyId == InitEmptyId /\ [][Next]_vars

(***************************************************************************)
(* One sync pass.  The server has served all the update requests of a      *)
(* behaviour but one and has met all the failures but one; the table is    *)
(* empty or holds the row of a product the upstream no longer serves, and  *)
(* the upstream catalog holds one product; no merchant id is configured,   *)
(* or account 1.  The steps of a pass are taken as long as one is          *)
(* enabled: RunUpdate is sequential code that runs to its end or to        *)
(* log.Fatal.                                                              *)
(***************************************************************************)
\* the tables the pass starts from
EarlierRows == {<<>>, <<NewRow(1, OfferArgs(Offer("X2", "t1", <<"B">>)))>>}

InitPass ==
    /\ store \in EarlierRows
    /\ nextId = Len(store) + 1
    /\ serving = {1}
    /\ catalog = {Offer("X1", "t1", <<"A", "b">>)}
    /\ boot = Constructed
    /\ crashed = FALSE
    /\ passes = MaxPasses - 1
    /\ faults = MaxFaults - 1
    /\ merchantId \in {0, 1}
    /\ pc = [p \in Requests |-> "idle"]
    /\ ctl = [p \in Requests |-> NoCtl]
    /\ hist = [p \in Requests |-> NoHist]
    /\ resp = NoResp

SpecPass == InitPass /\ [][Next]_vars

\* a step of the pass of request p: everything but the arrival of the request
PassStep(p) ==
    \/ Authinfo(p)
    \/ AccountsGet(p)
    \/ AccountsListDo(p)
    \/ UpdateAccountTables(p)
    \/ ProductsListDo(p)
    \/ GetOfferStep(p)
    \/ UpdateOfferStep(p)
    \/ AddOfferStep(p)
    \/ DeleteOffersStep(p)
    \/ RenderSuccess(p)

SpecPassFair == SpecPass /\ WF_vars(\E p \in Requests : PassStep(p))

(***************************************************************************)
(* Reads of the store.  The read model starts from a table of up to        *)
(* MaxFill rows of other offers followed by up to MaxTail rows of the      *)
(* products, and serves list, detail and search requests.                  *)
(***************************************************************************)
\* the texts searched for
Queries == SeqsUpTo(Chars, 2)

FillOffer(i) == Offer("F" \o ToString(i), "t1", <<"B">>)

\* the table after AddOffer of FillOffer(1..n) and then of the offers of tail
FilledRows(n, tail) ==
    [i \in 1..(n + Len(tail)) |->
        NewRow(i, OfferArgs(IF i <= n THEN FillOffer(i) ELSE tail[i - n]))]

\* the numbers of rows in front: none, one, and around the limit of the list
FillSizes == {0, 1, MaxFill - 1, MaxFill}

InitRead ==
    /\ \E n \in FillSizes, tail \in SeqsUpTo(Products, MaxTail) :
          /\ store = FilledRows(n, tail)
          /\ nextId = n + Len(tail) + 1
    /\ serving = {1}
    /\ catalog = Products
    /\ boot = Constructed
    /\ crashed = FALSE
    /\ passes = 0
    /\ faults = 0
    /\ merchantId \in AccountIds
    /\ pc = [p \in Requests |-> "idle"]
    /\ ctl = [p \in Requests |-> NoCtl]
    /\ hist = [p \in Requests |-> NoHist]
    /\ resp = NoResp

\* searchHandler: offers.DB.SearchOffers(queries[0])
SearchHandler ==
    /\ ~crashed
    /\ \E q \in Queries, ioFail \in Failures :
          LET r == SearchOffers(q, DB, ioFail)
          IN  /\ resp' = [op |-> "search", q |-> q, err |-> r.err,
                          offers |-> r.offers]
              /\ Inject(ioFail)
    /\ UNCHANGED <<store, nextId, serving, catalog, boot, crashed, passes,
                   merchantId,
                   pc, ctl, hist>>

\* listHandler: offers.DB.ListOffers()
ListHandler ==
    /\ ~crashed
    /\ \E ioFail \in Failures :
          LET r == ListOffers(DB, ioFail)
          IN  /\ resp' = [op |-> "list", q |-> <<>>, err |-> r.err,
                          offers |-> r.offers]
              /\ Inject(ioFail)
    /\ UNCHANGED <<store, nextId, serving, catalog, boot, crashed, passes,
                   merchantId,
                   pc, ctl, hist>>

\* the offer ids asked for in detail requests
DetailIds == {o.ID : o \in Products} \cup {"nonexistent-id"}

\* detailHandler: offerFromRequest, offers.DB.GetOffer(id)
DetailHandler ==
    /\ ~crashed
    /\ \E id \in DetailIds, ioFail \in Failures :
          LET r == GetOffer(id, DB, ioFail)
          IN  /\ resp' = [op |-> "get", q |-> id, err |-> r.err,
                          offers |-> r.offers]
              /\ Inject(ioFail)
    /\ UNCHANGED <<store, nextId, serving, catalog, boot, crashed, passes,
                   merchantId,
                   pc, ctl, hist>>

NextRead ==
    \/ SearchHandler
    \/ ListHandler
    \/ DetailHandler

SpecRead == InitRead /\ [][NextRead]_vars

(***************************************************************************)
(* The construction of the store: newMySQLDB and ensureTableExists, run    *)
(* by init against a MySQL server that has no library database, the        *)
(* database without the offers table, or both.  A request to the server    *)
(* can fail (connection refused, access denied, a lost connection); the    *)
(* server answers the others from its schema.                              *)
(***************************************************************************)
\* the state of the MySQL server
Schemas == {"none", "db", "table"}

\* the statements of newMySQLDB: list, get, insert, update, delete
NumPrepared == 5

\* the statements of createTableStatements
NumCreate == 3

InitBoot ==
    /\ store = <<>>
    /\ nextId = 1
    /\ serving = {1}
    /\ catalog = Products
    /\ crashed = FALSE
    /\ passes = 0
    /\ faults = 0
    /\ merchantId = 1
    /\ pc = [p \in Requests |-> "idle"]
    /\ ctl = [p \in Requests |-> NoCtl]
    /\ hist = [p \in Requests |-> NoHist]
    /\ resp = NoResp
    /\ \E schema \in Schemas :
          boot = [pc |-> "ping", schema |-> schema, selected |-> FALSE,
                  pingErr |-> "none", useErr |-> "none", descErr |-> "none",
                  stmt |-> 0, created |-> 0, prepared |-> 0]

BootUnchanged ==
    UNCHANGED <<store, nextId, serving, catalog, crashed, passes, merchantId,
                pc, ctl, hist, resp>>

\* ensureTableExists: conn.Ping(); only driver.ErrBadConn is taken as a
\* failure
EnsurePing ==
    /\ boot.pc = "ping"
    /\ \E e \in {"ok"} \cup {x \in {"badconn", "other"} : TRUE \in Failures} :
          /\ Inject(e # "ok")
          /\ boot' = [boot EXCEPT
                         !.pingErr = e,
                         !.pc = IF e = "badconn" THEN "failed" ELSE "use"]
    /\ BootUnchanged

\* the answer of the server to USE library
UseAnswer(schema) == IF schema = "none" THEN "1049" ELSE "ok"

\* ensureTableExists: conn.Exec("USE library"); error 1049 leads to
\* createTable, any other error is passed over
EnsureUse ==
    /\ boot.pc = "use"
    /\ \E fail \in Failures :
          LET e == IF fail THEN "other" ELSE UseAnswer(boot.schema)
          IN  /\ Inject(fail)
              /\ boot' = [boot EXCEPT
                             !.useErr = e,
                             !.selected = (e = "ok"),
                             !.stmt = IF e = "1049" THEN 1 ELSE 0,
                             !.pc = IF e = "1049" THEN "create"
                                    ELSE "describe"]
    /\ BootUnchanged

\* the answer of the server to DESCRIBE offers: error 1046 when the
\* connection has no database selected, error 1146 when the table is missing
DescribeAnswer(schema, selected) ==
    IF ~selected THEN "other"
    ELSE IF schema = "table" THEN "ok" ELSE "1146"

\* ensureTableExists: conn.Exec("DESCRIBE offers"); error 1146 leads to
\* createTable, any other error is returned
EnsureDescribe ==
    /\ boot.pc = "describe"
    /\ \E fail \in Failures :
          LET e == IF fail THEN "other"
                   ELSE DescribeAnswer(boot.schema, boot.selected)
          IN  /\ Inject(fail)
              /\ boot' = [boot EXCEPT
                             !.descErr = e,
                             !.stmt = IF e = "1146" THEN 1 ELSE 0,
                             !.pc = CASE e = "ok"   -> "open"
                                      [] e = "1146" -> "create"
                                      [] OTHER      -> "failed"]
    /\ BootUnchanged

\* the schema of the server after statement n of createTableStatements
AfterCreate(schema, n) ==
    CASE n = 1 -> IF schema = "none" THEN "db" ELSE schema
      [] n = 2 -> schema
      [] n = 3 -> "table"

\* createTable: the next statement of createTableStatements; an error is
\* returned, and after the last statement ensureTableExists returns nil
CreateTable ==
    /\ boot.pc = "create"
    /\ \E fail \in Failures :
          /\ Inject(fail)
          /\ boot' =
                IF fail
                THEN [boot EXCEPT !.pc = "failed"]
                ELSE [boot EXCEPT
                         !.schema = AfterCreate(boot.schema, boot.stmt),
                         !.selected = @ \/ boot.stmt = 2,
                         !.created = @ + 1,
                         !.stmt = @ + 1,
                         !.pc = IF boot.stmt = NumCreate THEN "open"
                                ELSE "create"]
    /\ BootUnchanged

\* newMySQLDB: sql.Open with the library database and conn.Ping(); any
\* error of the ping is returned
NewConnPing ==
    /\ boot.pc = "open"
    /\ \E fail \in Failures :
          /\ Inject(fail)
          /\ boot' = [boot EXCEPT
                         !.pc = IF fail \/ boot.schema = "none"
                                THEN "failed" ELSE "prepare"]
    /\ BootUnchanged

\* newMySQLDB: the next conn.Prepare; an error is returned, and after the
\* last one the store is constructed
PrepareStatement ==
    /\ boot.pc = "prepare"
    /\ \E fail \in Failures :
          /\ Inject(fail)
          /\ boot' =
                IF fail \/ boot.schema # "table"
                THEN [boot EXCEPT !.pc = "failed"]
                ELSE [boot EXCEPT
                         !.prepared = @ + 1,
                         !.pc = IF boot.prepared + 1 = NumPrepared
                                THEN "constructed" ELSE "prepare"]
    /\ BootUnchanged

\* init: log.Fatal(err) when the construction has returned an error
InitFatal ==
    /\ boot.pc = "failed"
    /\ ~crashed
    /\ crashed' = TRUE
    /\ UNCHANGED <<store, nextId, serving, catalog, boot, passes, faults,
                   merchantId, pc, ctl, hist, resp>>

NextBoot ==
    \/ EnsurePing
    \/ EnsureUse
    \/ EnsureDescribe
    \/ CreateTable
    \/ NewConnPing
    \/ PrepareStatement
    \/ InitFatal

SpecBoot == InitBoot /\ [][NextBoot]_vars

(***************************************************************************)
(* The write operations of the store, called in any order with any offer   *)
(* of the catalog on the table createTableStatements creates (empty).      *)
(* Every sequence of sync passes is such a sequence of calls.              *)
(***************************************************************************)
InitStore ==
    /\ store = <<>>
    /\ nextId = 1
    /\ serving = {1}
    /\ catalog = Products
    /\ boot = Constructed
    /\ crashed = FALSE
    /\ passes = 0
    /\ faults = 0
    /\ merchantId = 1
    /\ pc = [p \in Requests |-> "idle"]
    /\ ctl = [p \in Requests |-> NoCtl]
    /\ hist = [p \in Requests |-> NoHist]
    /\ resp = NoResp

\* the result of a write operation on the store
Written(op, o, r) ==
    /\ store' = r.db.rows
    /\ nextId' = r.db.autoInc
    /\ resp' = [op |-> op, q |-> o, err |-> IF r.err THEN "error" ELSE "nil",
                offers |-> <<>>]
    /\ UNCHANGED <<serving, catalog, boot, crashed, passes, merchantId, pc,
                   ctl, hist>>

\* DB.AddOffer(o)
AddOfferCall ==
    \E o \in catalog, ioFail \in Failures :
       /\ Len(store) < MaxRows
       /\ Inject(ioFail)
       /\ Written("add", <<o>>, AddOffer(OfferOfProduct(o), DB, ioFail))

\* DB.UpdateOffer(o)
UpdateOfferCall ==
    \E o \in catalog, ioFail \in Failures :
       /\ Inject(ioFail)
       /\ Written("update", <<o>>, UpdateOffer(OfferOfProduct(o), DB, ioFail))

\* DB.DeleteOffers()
DeleteOffersCall ==
    \E ioFail \in Failures :
       /\ Inject(ioFail)
       /\ Written("delete", <<>>, DeleteOffers(DB, ioFail))

NextStore ==
    \/ AddOfferCall
    \/ UpdateOfferCall
    \/ DeleteOffersCall

SpecStore == InitStore /\ [][NextStore]_vars

(***************************************************************************)
(* Two update requests.  net/http serves every request in a goroutine of   *)
(* its own and updateHandler takes no lock, so the steps of the two        *)
(* passes are taken in any order.  The upstream catalog holds one product, *)
(* account 1 is configured and the table holds rows of earlier passes.     *)
(***************************************************************************)
\* the table of the earlier passes: rows of a product the upstream no longer
\* serves, with room for one more row
StoredBefore ==
    [i \in 1..(MaxRows - 1) |-> NewRow(i, OfferArgs(Offer("X2", "t1", <<"B">>)))]

InitConcurrent ==
    /\ store = StoredBefore
    /\ nextId = Len(store) + 1
    /\ serving = {1, 2}
    /\ catalog = {Offer("X1", "t1", <<"A", "b">>)}
    /\ boot = Constructed
    /\ crashed = FALSE
    /\ passes = 0
    /\ faults = 0
    /\ merchantId = 1
    /\ pc = [p \in Requests |-> "idle"]
    /\ ctl = [p \in Requests |-> NoCtl]
    /\ hist = [p \in Requests |-> NoHist]
    /\ resp = NoResp

SpecConcurrent == InitConcurrent /\ [][Next]_vars


(***************************************************************************)
(* Properties of the reconciliation.                                       *)
(***************************************************************************)
\* the ids upserted so far in the pass of request p
UpsertedIds(p) == {hist[p].upserted[k].ID : k \in DOMAIN hist[p].upserted}

\* an upstream request or a store operation has failed in the pass of p
AnyFailure(p) ==
    \/ hist[p].pageFailed
    \/ hist[p].getFailed
    \/ hist[p].updateFailed
    \/ hist[p].addFailed
    \/ hist[p].deleteFailed

\* updateProducts or a page request has returned an error in the pass of p
Aborted(p) ==
    hist[p].pageFailed \/ hist[p].addFailed \/ hist[p].deleteFailed

\* the rows of a table without their row ids
Content(rows) ==
    [i \in DOMAIN rows |->
        [offer |-> scanOffer(rows[i]), touched |-> rows[i].updated]]

\* the reference upsert of offer o into a table content
RefUpsert(content, o) ==
    IF \E i \in DOMAIN content : content[i].offer.ID = o.ID
    THEN [i \in DOMAIN content |->
            IF content[i].offer.ID = o.ID
            THEN [offer |-> o, touched |-> TRUE]
            ELSE content[i]]
    ELSE Append(content, [offer |-> o, touched |-> TRUE])

\* C1: after a sync pass that completes without a failure, the set of
\* offer ids in the store is exactly the set of ids the upstream returned
\* during that pass.
C1_StoreMirrorsPass ==
    \A p \in Requests :
       (pc[p] = "done" /\ ~AnyFailure(p)) => StoreIds = hist[p].seen

\* C2: the store holds at most one row per offer id, whatever records the
\* reconciler has upserted (stated for the runs in which no operation fails).
C2_Uniqueness ==
    faults = 0 =>
       \A i, j \in DOMAIN store :
          store[i].offerId = store[j].offerId => i = j

\* C3: a pass that upserts some of the ids the store held when it began
\* (A and B of A, B, C) and sweeps leaves exactly the ids it upserted: every
\* row not upserted during the pass is absent after the sweep.
C3_SweepCorrectness ==
    \A p \in Requests :
       (/\ pc[p] = "done" /\ ~Aborted(p) /\ hist[p].sweeps >= 1
        /\ UpsertedIds(p) # {}
        /\ UpsertedIds(p) \subseteq hist[p].startIds)
          => StoreIds = UpsertedIds(p)

\* C4: when the upsert of a record fails, the records upserted before it in
\* the pass are still stored and DeleteOffers is not invoked at any point of
\* that pass.
C4_PartialPassSafety ==
    \A p \in Requests :
       hist[p].addFailed =>
          /\ UpsertedIds(p) \subseteq StoreIds
          /\ hist[p].sweeps = 0

\* C5: in a pass DeleteOffers is called exactly once, after the last upsert:
\* it is never called a second time, no upsert of the pass happens after it,
\* and a pass that was served products and was not cut short has called it.
C5_SweepOnceAtEnd ==
    \A p \in Requests :
       /\ hist[p].sweeps <= 1
       /\ pc[p] \in {"update", "add"} => hist[p].sweeps = 0
       /\ (pc[p] = "done" /\ ~Aborted(p) /\ hist[p].seen # {})
             => hist[p].sweeps = 1

\* C6: the per-record step of the reconciler (GetOffer, UpdateOffer,
\* AddOffer) is the reference upsert: an existing row takes the values of the
\* offer and the number of rows is unchanged, otherwise one row is added;
\* the row is touched (stated for the runs in which no operation fails).
C6_UpsertIsReference ==
    \A p \in Requests :
       (faults = 0 /\ pc[p] = "record" /\ ctl[p].cur # <<>>) =>
          Content(store) = RefUpsert(Content(hist[p].before), ctl[p].cur[1])

\* C7: upserting the same Offer value twice in a pass leaves exactly one row
\* with that id, equal to the value and touched (stated for the runs in
\* which no operation fails).
C7_UpsertIdempotent ==
    \A p \in Requests :
       LET u == hist[p].upserted
           n == Len(u)
       IN  (faults = 0 /\ n >= 2 /\ u[n] = u[n - 1] /\ pc[p] = "record") =>
              LET rows == SelectSeq(Content(store),
                                    LAMBDA c : c.offer.ID = u[n].ID)
              IN  rows = <<[offer |-> u[n], touched |-> TRUE]>>

\* C8: after a failed store write (UpdateOffer or AddOffer) nothing more is
\* written to the store in that pass.
C8_WriteFailureEndsPass ==
    [][(\E p \in Requests : hist[p].updateFailed \/ hist[p].addFailed)
          => store' = store]_vars

\* C9: a pass in which a page request or a store write failed does not end
\* with the success page.
C9_FailureIsReported ==
    \A p \in Requests :
       pc[p] = "done" =>
          ~(hist[p].pageFailed \/ hist[p].updateFailed
               \/ hist[p].addFailed \/ hist[p].deleteFailed)

\* C10: SearchOffers returns all and only the stored offers whose
\* description contains the text case-insensitively, and fails with not-found
\* exactly when there is none.
C10_SearchSemantics ==
    resp.op = "search" /\ resp.err # "io" =>
       LET all == [i \in DOMAIN store |-> scanOffer(store[i])]
           expected == SelectSeq(all,
                          LAMBDA o : Contains(ToLower(o.Description),
                                              ToLower(resp.q)))
       IN  /\ (resp.err = "notfound") <=> (expected = <<>>)
           /\ resp.err = "nil" => resp.offers = expected

(***************************************************************************)
(* Properties of the reads and of the writes of the store.                 *)
(***************************************************************************)
\* the rows of the store with offer id id
RowsWithId(id) == {i \in DOMAIN store : store[i].offerId = id}

\* C11: GetOffer(id) returns a not-found error and no offer when no stored
\* row has that id, and otherwise the offer of a stored row with that id; the
\* store is unchanged by it.
C11_GetMiss ==
    /\ [](resp.op = "get" /\ resp.err # "io" =>
            IF RowsWithId(resp.q) = {}
            THEN resp.err = "notfound" /\ resp.offers = <<>>
            ELSE /\ resp.err = "nil"
                 /\ Len(resp.offers) = 1
                 /\ \E i \in RowsWithId(resp.q) :
                       resp.offers[1] = scanOffer(store[i]))
    /\ [][resp' # resp => store' = store /\ nextId' = nextId]_vars

\* a detail request for an id that no row of a non-empty store has
C11_Witness ==
    /\ resp.op = "get" /\ resp.err = "notfound"
    /\ store # <<>> /\ RowsWithId(resp.q) = {}

\* C12: GetOffer(id) does not succeed with one row when several stored rows
\* have that id: when DB.GetOffer has just succeeded in the reconciler, the
\* id has exactly one row.
C12_GetNeverArbitrary ==
    \A p \in Requests :
       pc[p] = "update" => Cardinality(RowsWithId(ctl[p].cur[1].ID)) = 1

\* C13: an offer with an empty id is rejected by every write operation, so
\* no sequence of reconciler steps stores a row whose offer id is empty.
C13_NoEmptyIdStored ==
    \A i \in DOMAIN store : store[i].offerId # ""

(***************************************************************************)
(* C14: a pass started with no explicit account id (id = 0) ends fatally   *)
(* only when the authinfo list is empty (no failure injected); otherwise   *)
(* it reaches the reconciler with the first account of the list.           *)
(***************************************************************************)
C14_DefaultAccount ==
    \A p \in Requests :
       (merchantId = 0 /\ pc[p] = "fatal" /\ faults = 0)
          => hist[p].resolution = "authEmpty"

(***************************************************************************)
(* C15: the resolved account is treated as an aggregator iff some entry    *)
(* of the authinfo list has the resolved id as its aggregator id,          *)
(* whatever the order of the entries.                                      *)
(***************************************************************************)
C15_AggregatorIffSomeEntry ==
    \A p \in Requests :
       pc[p] = "accountsGet" =>
          (ctl[p].isMCA <=>
             \E i \in DOMAIN ctl[p].authinfo :
                ctl[p].authinfo[i].AggregatorId = ctl[p].id)

\* the entries of an authinfo list that name id in either field
Naming(authinfo, id) ==
    {i \in DOMAIN authinfo :
        authinfo[i].MerchantId = id \/ authinfo[i].AggregatorId = id}

\* the first of them
FirstNaming(authinfo, id) ==
    CHOOSE i \in Naming(authinfo, id) : \A j \in Naming(authinfo, id) : i <= j

(***************************************************************************)
(* C15 (amended): the first entry of the authinfo list that names the      *)
(* resolved id in either field decides: the account is an aggregator iff   *)
(* there is such an entry and its merchant id is not the resolved id (so   *)
(* its aggregator id is); with no such entry it is a standalone merchant.  *)
(***************************************************************************)
C15_FirstNamingEntryDecides ==
    \A p \in Requests :
       pc[p] = "accountsGet" =>
          LET a  == ctl[p].authinfo
              id == ctl[p].id
          IN  ctl[p].isMCA <=>
                 /\ Naming(a, id) # {}
                 /\ a[FirstNaming(a, id)].MerchantId # id

C15_Witness ==
    \E p \in Requests :
       /\ pc[p] = "accountsGet"
       /\ ~ctl[p].isMCA
       /\ \E i \in DOMAIN ctl[p].authinfo :
             ctl[p].authinfo[i].AggregatorId = ctl[p].id

\* no row of the table is untouched
NoUntouchedRow == \A i \in DOMAIN store : store[i].updated

(***************************************************************************)
(* C16: a call of DeleteOffers that meets no I/O failure while no row is   *)
(* untouched returns no error and leaves the table and its counter as      *)
(* they were, also when the table is empty.                                *)
(***************************************************************************)
C16_SweepOfNothing ==
    [][\A p \in Requests :
         (DeleteOffersStep(p) /\ faults' = faults /\ NoUntouchedRow)
            => /\ store' = store
               /\ nextId' = nextId
               /\ hist'[p].deleteFailed = hist[p].deleteFailed]_vars

C16_Witness ==
    \E p \in Requests :
       /\ hist[p].sweeps >= 2
       /\ ~hist[p].deleteFailed
       /\ faults = MaxFaults - 1
       /\ hist[p].upserted # <<>>
       /\ hist[p].upserted = hist[p].served
       /\ store # <<>>

(***************************************************************************)
(* C17: when a pass starts every stored row is untouched, and when the     *)
(* sweep runs a row whose id has not been upserted in the pass is still    *)
(* untouched (no failure injected).                                        *)
(***************************************************************************)
C17_TouchedOnlyByUpsert ==
    \A p \in Requests :
       /\ (pc[p] = "authinfo" /\ faults = 0)
             => \A i \in DOMAIN store : ~store[i].updated
       /\ (pc[p] = "record" /\ ctl[p].prodQueue = <<>> /\ faults = 0)
             => \A i \in DOMAIN store :
                   store[i].offerId \notin UpsertedIds(p) => ~store[i].updated

\* no page request and no GetOffer, AddOffer or DeleteOffers call of the pass
\* of p has failed (the error of UpdateOffer is dropped by updateProducts)
Undisturbed(p) ==
    /\ ~hist[p].pageFailed
    /\ ~hist[p].getFailed
    /\ ~hist[p].addFailed
    /\ ~hist[p].deleteFailed

ResolutionFailed(p) ==
    hist[p].resolution \in {"authFailed", "authEmpty", "getFailed"}

(***************************************************************************)
(* C19: when the account resolution of a pass fails the pass has ended     *)
(* there: the reconciler has not been invoked and no store operation has   *)
(* been made in the pass, and afterwards nothing is retried and the store  *)
(* stays as it is.                                                         *)
(***************************************************************************)
C19_ResolutionFailureEndsPass ==
    /\ [](\A p \in Requests :
            ResolutionFailed(p)
               => /\ pc[p] = "fatal"
                  /\ ~hist[p].reconciler
                  /\ hist[p].storeOps = 0)
    /\ [][\A p \in Requests :
            ResolutionFailed(p)
               => /\ pc'[p] = pc[p]
                  /\ hist'[p] = hist[p]
                  /\ store' = store
                  /\ nextId' = nextId]_vars

C19_Witness ==
    \E p \in Requests :
       /\ hist[p].resolution = "getFailed"
       /\ pc[p] = "fatal"
       /\ store # <<>>

\* an error other than 1049 from USE and 1146 from DESCRIBE has been met in
\* ensureTableExists
OtherBootError ==
    \/ boot.pingErr \in {"badconn", "other"}
    \/ boot.useErr = "other"
    \/ boot.descErr = "other"

(***************************************************************************)
(* C20: the create statements run only after error 1049 or 1146, and once  *)
(* any other error has been met in ensureTableExists (a failed ping, a     *)
(* USE or DESCRIBE error with another code) nothing is created,            *)
(* ensureTableExists does not return nil and the store is not constructed. *)
(***************************************************************************)
C20_BootstrapErrorsPropagate ==
    /\ boot.created > 0 => (boot.useErr = "1049" \/ boot.descErr = "1146")
    /\ OtherBootError
          => /\ boot.created = 0
             /\ boot.pc \notin {"create", "open", "prepare", "constructed"}

\* table a is the beginning of table b
IsPrefix(a, b) == Len(a) <= Len(b) /\ SubSeq(b, 1, Len(a)) = a

C22_SingleWriter ==
    \A p \in Requests :
       (pc[p] \in {"update", "add"} /\ faults = 0)
          => store = hist[p].before
====
